---------------------------- MODULE Spec2Model ----------------------------
(***************************************************************************)
(* Model of the Bible verse drawing application (src/app.py,               *)
(* src/database.py): the SQLite tables verses, user_draws and admin, the   *)
(* Flask handlers of the JSON API, and the requests that run concurrently  *)
(* against the one database file.                                          *)
(*                                                                         *)
(* Strings that the code converts (emails, verse texts) are sequences of   *)
(* one-character strings, so that strip() and lower() are computed.        *)
(* Time stamps (created_at, drawn_at) are not modelled.                    *)
(* SQLite does not enforce FOREIGN KEY clauses unless PRAGMA foreign_keys  *)
(* is switched on, which get_connection never does: the clause of          *)
(* user_draws is therefore not a guard of any action.                      *)
(***************************************************************************)
EXTENDS Integers, Sequences, FiniteSets, TLC

\* ------------------------------------------------------------------ bounds

\* Number of request slots that serve /api/draw-verse concurrently.
NProcs == 2
\* Number of browser sessions (cookie jars) talking to the admin API.
NSessions == 1
\* Number of sample verses init_db inserts (the source inserts eight).
NumSampleVerses == 1
\* Number of verses the admin may add on top of the samples.
MaxAdds == 1
\* Number of requests the server takes up in one run.
MaxRequests == 5

Procs == 1..NProcs
Sessions == 1..NSessions
MaxVerseId == NumSampleVerses + MaxAdds

\* ----------------------------------------------------------------- strings

LowerLetters == {"a", "b", "c", "d"}
UpperLetters == {"A", "B", "C", "D"}
Letters == LowerLetters \cup UpperLetters
DigitChars == {"0", "1", "2", "3", "4", "5", "6", "7", "8", "9"}
\* The characters str.strip() removes (of the model's alphabet).
Whitespace == {" ", "\t", "\n"}

LowerChar(c) ==
    CASE c = "A" -> "a" [] c = "B" -> "b" [] c = "C" -> "c" [] c = "D" -> "d"
      [] OTHER -> c

UpperChar(c) ==
    CASE c = "a" -> "A" [] c = "b" -> "B" [] c = "c" -> "C" [] c = "d" -> "D"
      [] OTHER -> c

lower(s) == [i \in 1..Len(s) |-> LowerChar(s[i])]

upper(s) == [i \in 1..Len(s) |-> UpperChar(s[i])]

SetMin(S) == CHOOSE x \in S : \A y \in S : x <= y

SetMax(S) == CHOOSE x \in S : \A y \in S : x >= y

strip(s) ==
    LET keep == {i \in 1..Len(s) : s[i] \notin Whitespace}
    IN  IF keep = {} THEN <<>> ELSE SubSeq(s, SetMin(keep), SetMax(keep))

\* ^[a-zA-Z0-9._%+-]+@[a-zA-Z0-9.-]+\.[a-zA-Z]{2,}  up to the end of s
LocalChars == Letters \cup DigitChars \cup {".", "_", "%", "+", "-"}
DomainChars == Letters \cup DigitChars \cup {".", "-"}

\* a is the place of "@", d the place of the dot before the last label.
FullMatch(s) ==
    \E a \in 2..Len(s) :
        /\ s[a] = "@"
        /\ \A i \in 1..(a - 1) : s[i] \in LocalChars
        /\ \E d \in (a + 2)..(Len(s) - 2) :
              /\ s[d] = "."
              /\ \A i \in (a + 1)..(d - 1) : s[i] \in DomainChars
              /\ \A i \in (d + 1)..Len(s) : s[i] \in Letters

\* re.match(pattern, email): "$" also matches before a final newline.
is_valid_email(s) ==
    \/ FullMatch(s)
    \/ /\ Len(s) >= 1
       /\ s[Len(s)] = "\n"
       /\ FullMatch(SubSeq(s, 1, Len(s) - 1))

\* ------------------------------------------------------------------ inputs

\* A member the JSON body does not have, and one that is a number: neither
\* is a sequence of characters.
Missing == <<"MISSING">>
NotAString == <<"NOT_A_STRING">>
MissingField == "MISSING"

\* Two mailboxes, written in canonical form.
Addresses ==
    { <<"a", "@", "b", ".", "c", "c">>, <<"d", "@", "b", ".", "c", "c">> }

\* The ways a request may spell the mailbox b: other letter case, and
\* whitespace around it.
VariantsOf(b) ==
    { b, upper(b), <<" ">> \o [b EXCEPT ![1] = UpperChar(b[1])] \o <<"\t">> }

Spellings == [b \in Addresses |-> VariantsOf(b)]

ValidRawEmails == UNION { Spellings[b] : b \in Addresses }

InvalidRawEmails == { <<"a", "@", "b">>, <<" ">> }

\* The "email" member of the request's JSON body.
EmailInputs == ValidRawEmails \cup InvalidRawEmails \cup {Missing, NotAString}

TextInputs == { <<" ", "b">>, <<" ">>, Missing, NotAString }
ReferenceInputs == { <<"c", " ">>, <<>>, Missing }

Usernames == {"admin", "root", MissingField}
Passwords == {"admin123", "wrong", MissingField}

\* generate_password_hash / check_password_hash, opaque.
generate_password_hash(password) == <<"hash", password>>

check_password_hash(pwhash, password) == pwhash = <<"hash", password>>

\* ------------------------------------------------------------------- state

VARIABLES
    verses,         \* table verses: rows [id, text, reference]
    verses_seq,     \* sqlite_sequence of verses (AUTOINCREMENT)
    user_draws,     \* table user_draws: rows [id, email, verse_id]
    user_draws_seq, \* sqlite_sequence of user_draws
    admin,          \* table admin: rows [id, username, password_hash]
    session,        \* the Flask session of each browser
    pc,             \* where each draw request stands
    email,          \* draw_verse_for_user's local email
    chosen,         \* draw_verse_for_user's local chosen
    last,           \* the response sent last
    served          \* the number of requests taken up so far

vars ==
    <<verses, verses_seq, user_draws, user_draws_seq, admin, session, pc,
      email, chosen, last, served>>

\* Python's None where a verse row is expected.
NoVerse == [id |-> 0, text |-> <<>>, reference |-> <<>>]

\* A response: the handler, the HTTP status, the identity the draw ran for
\* (draw_verse_for_user's email), and the members of the JSON body (those
\* the handler does not send at default).
Response(op, status, key, verse, already, verse_id, logged_in, list) ==
    [op |-> op, status |-> status, key |-> key, verse |-> verse,
     already_drawn |-> already, verse_id |-> verse_id,
     logged_in |-> logged_in, verses |-> list]

NoResponse == Response("none", 0, <<>>, NoVerse, FALSE, 0, FALSE, <<>>)

DrawResponse(status, key, verse, already) ==
    Response("draw_verse", status, key, verse, already, 0, FALSE, <<>>)

AdminResponse(op, status, verse_id, logged_in, list) ==
    Response(op, status, <<>>, NoVerse, FALSE, verse_id, logged_in, list)

SampleRef == <<"1", "2", "3", "4", "5", "6", "7", "8", "9">>

\* The rows init_db inserts when verses is empty, ids from 1.
sample_verses ==
    { [id |-> i, text |-> <<"a">>, reference |-> <<SampleRef[i]>>] :
        i \in 1..NumSampleVerses }

EmptySession == [admin_id |-> 0, admin_logged_in |-> FALSE]

Init ==
    /\ verses = sample_verses
    /\ verses_seq = NumSampleVerses
    /\ user_draws = {}
    /\ user_draws_seq = 0
    /\ admin = { [id |-> 1, username |-> "admin",
                  password_hash |-> generate_password_hash("admin123")] }
    /\ session = [s \in Sessions |-> EmptySession]
    /\ pc = [p \in Procs |-> "idle"]
    /\ email = [p \in Procs |-> <<>>]
    /\ chosen = [p \in Procs |-> NoVerse]
    /\ last = NoResponse
    /\ served = 0

\* -------------------------------------------------------- database.py (draw)

\* The JOIN written ON ud.id = v.id.
check_user_draw_JoinOnRowId(e) ==
    LET param == lower(e)
        rows == { v \in verses :
                    \E ud \in user_draws :
                        ud.id = v.id /\ ud.email = param }
    IN  IF rows = {} THEN NoVerse ELSE CHOOSE v \in rows : TRUE

\* SELECT ... FROM user_draws ud JOIN verses v ON ud.verse_id = v.id
\* WHERE ud.email = ?   with email.lower(); fetchone() or None.
check_user_draw(e) ==
    LET param == lower(e)
        rows == { v \in verses :
                    \E ud \in user_draws :
                        ud.verse_id = v.id /\ ud.email = param }
    IN  IF rows = {} THEN NoVerse ELSE CHOOSE v \in rows : TRUE

\* email = email.strip(), the lower() forgotten.
NormalizeEmail_NoLower(e) == strip(e)

\* The email stored as the handler passed it.
NormalizeEmail_AsGiven(e) == e

\* email = email.lower().strip()
NormalizeEmail(e) == strip(lower(e))

\* A table whose email column carries no UNIQUE constraint.
UniqueViolation_NoConstraint(e) == FALSE

\* The UNIQUE constraint of user_draws.email refuses the INSERT.
UniqueViolation(e) == \E ud \in user_draws : ud.email = e

\* A choice among the verses no identity holds yet.
Choices_Unassigned(rows) ==
    { v \in rows : \A ud \in user_draws : ud.verse_id # v.id }

\* draw_verse's email = data['email'].strip() and its validity, and the
\* email draw_verse_for_user makes of it, for each string a request may
\* carry.
StringInputs == ValidRawEmails \cup InvalidRawEmails

Stripped == [d \in StringInputs |-> strip(d)]

\* A draw_verse that skips the is_valid_email test.
Valid_AcceptAll == [d \in StringInputs |-> TRUE]

Valid == [d \in StringInputs |-> is_valid_email(Stripped[d])]

Normalized == [d \in StringInputs |-> NormalizeEmail(Stripped[d])]

\* random.choice(verses) over the rows the SELECT returned.
Choices(rows) == rows

\* --------------------------------------------------------- app.py (draw)

\* A 400 of draw_verse, or the 500 of an exception it does not catch.
DrawReject(status) ==
    /\ last' = DrawResponse(status, <<>>, NoVerse, FALSE)
    /\ UNCHANGED <<verses, verses_seq, user_draws, user_draws_seq, pc, email>>

\* A hit that records the draw again (INSERT OR REPLACE of the row).
DrawHit_RecordsDraw(p, key, existing) ==
    /\ last' = DrawResponse(200, key, existing, TRUE)
    /\ user_draws' = { ud \in user_draws : ud.email # key } \cup
            { [id |-> user_draws_seq + 1, email |-> key,
               verse_id |-> existing.id] }
    /\ user_draws_seq' = user_draws_seq + 1
    /\ UNCHANGED <<verses, verses_seq, pc, email>>

\* draw_verse_for_user's "if existing": the verse of the ledger's row, and
\* already_drawn = True.
DrawHit(p, key, existing) ==
    /\ last' = DrawResponse(200, key, existing, TRUE)
    /\ UNCHANGED <<verses, verses_seq, user_draws, user_draws_seq, pc, email>>

\* No row came back: the request goes on to read the pool.
DrawMiss(p, key) ==
    /\ pc' = [pc EXCEPT ![p] = "miss"]
    /\ email' = [email EXCEPT ![p] = key]
    /\ UNCHANGED <<verses, verses_seq, user_draws, user_draws_seq, last>>

\* POST /api/draw-verse up to the end of check_user_draw: the request is
\* refused, answered from the ledger, or goes on to read the pool.
DrawCheck(p, d) ==
    /\ pc[p] = "idle"
    /\ UNCHANGED <<admin, session, chosen>>
    /\ IF d = Missing
       THEN DrawReject(400)
       ELSE IF d = NotAString
       THEN \* data['email'].strip() raises AttributeError
            DrawReject(500)
       ELSE IF ~Valid[d]
       THEN DrawReject(400)
       ELSE LET key == Normalized[d]
                existing == check_user_draw(key)
            IN  IF existing # NoVerse
                THEN DrawHit(p, key, existing)
                ELSE DrawMiss(p, key)

\* The read without its "if not verses": random.choice raises IndexError
\* on an empty list, and Flask answers 500.
DrawRead_NoEmptyCheck(p) ==
    /\ pc[p] = "miss"
    /\ UNCHANGED <<verses, verses_seq, user_draws, user_draws_seq, admin,
                   session>>
    /\ IF verses = {}
       THEN /\ pc' = [pc EXCEPT ![p] = "idle"]
            /\ email' = [email EXCEPT ![p] = <<>>]
            /\ last' = DrawResponse(500, email[p], NoVerse, FALSE)
            /\ UNCHANGED chosen
       ELSE /\ \E v \in verses : chosen' = [chosen EXCEPT ![p] = v]
            /\ pc' = [pc EXCEPT ![p] = "chosen"]
            /\ UNCHANGED <<email, last>>

\* SELECT id, text, reference FROM verses, and random.choice of a row;
\* an empty pool ends the request with None, which the handler sends as 404.
DrawRead(p) ==
    /\ pc[p] = "miss"
    /\ UNCHANGED <<verses, verses_seq, user_draws, user_draws_seq, admin,
                   session>>
    /\ IF verses = {}
       THEN /\ pc' = [pc EXCEPT ![p] = "idle"]
            /\ email' = [email EXCEPT ![p] = <<>>]
            /\ last' = DrawResponse(404, email[p], NoVerse, FALSE)
            /\ UNCHANGED chosen
       ELSE /\ \E v \in Choices(verses) : chosen' = [chosen EXCEPT ![p] = v]
            /\ pc' = [pc EXCEPT ![p] = "chosen"]
            /\ UNCHANGED <<email, last>>

\* An INSERT that first takes the verse away from whoever holds it.
DrawInsert_TakesVerse(p) ==
    /\ pc[p] = "chosen"
    /\ UNCHANGED <<verses, verses_seq, admin, session>>
    /\ pc' = [pc EXCEPT ![p] = "idle"]
    /\ email' = [email EXCEPT ![p] = <<>>]
    /\ chosen' = [chosen EXCEPT ![p] = NoVerse]
    /\ IF UniqueViolation(email[p])
       THEN /\ last' = DrawResponse(500, email[p], NoVerse, FALSE)
            /\ UNCHANGED <<user_draws, user_draws_seq>>
       ELSE /\ user_draws' =
                    { ud \in user_draws : ud.verse_id # chosen[p].id } \cup
                    { [id |-> user_draws_seq + 1, email |-> email[p],
                       verse_id |-> chosen[p].id] }
            /\ user_draws_seq' = user_draws_seq + 1
            /\ last' = DrawResponse(200, email[p], chosen[p], FALSE)

\* INSERT INTO user_draws (email, verse_id), commit, and the response; the
\* sqlite3.IntegrityError of the UNIQUE constraint is caught nowhere, and
\* Flask answers 500.
DrawInsert(p) ==
    /\ pc[p] = "chosen"
    /\ UNCHANGED <<verses, verses_seq, admin, session>>
    /\ pc' = [pc EXCEPT ![p] = "idle"]
    /\ email' = [email EXCEPT ![p] = <<>>]
    /\ chosen' = [chosen EXCEPT ![p] = NoVerse]
    /\ IF UniqueViolation(email[p])
       THEN /\ last' = DrawResponse(500, email[p], NoVerse, FALSE)
            /\ UNCHANGED <<user_draws, user_draws_seq>>
       ELSE /\ user_draws' = user_draws \cup
                    { [id |-> user_draws_seq + 1, email |-> email[p],
                       verse_id |-> chosen[p].id] }
            /\ user_draws_seq' = user_draws_seq + 1
            /\ last' = DrawResponse(200, email[p], chosen[p], FALSE)

\* ------------------------------------------------------ database.py (verses)

\* The rows of a table, ORDER BY id DESC.
RECURSIVE OrderByIdDesc(_)
OrderByIdDesc(rows) ==
    IF rows = {} THEN <<>>
    ELSE LET top == CHOOSE r \in rows : \A q \in rows : q.id <= r.id
         IN  <<top>> \o OrderByIdDesc(rows \ {top})

get_all_verses == OrderByIdDesc(verses)

\* SELECT id, text, reference FROM verses WHERE id = ?; fetchone() or None.
get_verse_by_id(verse_id) ==
    LET rows == { v \in verses : v.id = verse_id }
    IN  IF rows = {} THEN NoVerse ELSE CHOOSE v \in rows : TRUE

\* The id of an INTEGER PRIMARY KEY without AUTOINCREMENT: the successor of
\* the largest id the table holds now.
NextVerseId_MaxRowId ==
    IF verses = {} THEN 1 ELSE SetMax({ v.id : v \in verses }) + 1

\* cursor.lastrowid of the INSERT: AUTOINCREMENT takes the successor of the
\* largest id the table ever held.
NextVerseId == verses_seq + 1

\* A delete that cascades to the draws of the verse.
DrawsAfterDelete_Cascade(verse_id) ==
    { ud \in user_draws : ud.verse_id # verse_id }

\* The rows DELETE FROM verses WHERE id = ? leaves in user_draws.
DrawsAfterDelete(verse_id) == user_draws

\* A verify_admin that looks up the username and forgets the hash.
verify_admin_NoPasswordCheck(username, password) ==
    LET rows == { r \in admin : r.username = username }
    IN  IF rows = {} THEN 0 ELSE (CHOOSE r \in rows : TRUE).id

\* SELECT id, password_hash FROM admin WHERE username = ?; the row's id when
\* the password matches its hash, 0 for None.
verify_admin(username, password) ==
    LET rows == { r \in admin : r.username = username }
    IN  IF rows = {} THEN 0
        ELSE LET row == CHOOSE r \in rows : TRUE
             IN  IF check_password_hash(row.password_hash, password)
                 THEN row.id ELSE 0

\* -------------------------------------------------------- app.py (admin)

\* POST /api/admin/login
AdminLogin(s, username, password) ==
    /\ UNCHANGED <<verses, verses_seq, user_draws, user_draws_seq, admin, pc,
                   email, chosen>>
    /\ IF username = MissingField \/ password = MissingField
       THEN /\ last' = AdminResponse("admin_login", 400, 0, FALSE, <<>>)
            /\ UNCHANGED session
       ELSE LET admin_id == verify_admin(username, password)
            IN  IF admin_id # 0
                THEN /\ session' = [session EXCEPT ![s] =
                            [admin_id |-> admin_id, admin_logged_in |-> TRUE]]
                     /\ last' = AdminResponse("admin_login", 200, 0, FALSE, <<>>)
                ELSE /\ last' = AdminResponse("admin_login", 401, 0, FALSE, <<>>)
                     /\ UNCHANGED session

\* A logout that pops admin_id and leaves the flag.
AdminLogout_KeepsFlag(s) ==
    /\ UNCHANGED <<verses, verses_seq, user_draws, user_draws_seq, admin, pc,
                   email, chosen>>
    /\ session' = [session EXCEPT ![s].admin_id = 0]
    /\ last' = AdminResponse("admin_logout", 200, 0, FALSE, <<>>)

\* POST /api/admin/logout
AdminLogout(s) ==
    /\ UNCHANGED <<verses, verses_seq, user_draws, user_draws_seq, admin, pc,
                   email, chosen>>
    /\ session' = [session EXCEPT ![s] = EmptySession]
    /\ last' = AdminResponse("admin_logout", 200, 0, FALSE, <<>>)

\* GET /api/admin/check
AdminCheck(s) ==
    /\ UNCHANGED <<verses, verses_seq, user_draws, user_draws_seq, admin,
                   session, pc, email, chosen>>
    /\ last' = AdminResponse("admin_check", 200, 0, session[s].admin_logged_in,
                             <<>>)

\* GET /api/admin/verses (the stats member of the body is left out)
GetVerses(s) ==
    /\ UNCHANGED <<verses, verses_seq, user_draws, user_draws_seq, admin,
                   session, pc, email, chosen>>
    /\ IF ~session[s].admin_logged_in
       THEN last' = AdminResponse("get_verses", 401, 0, FALSE, <<>>)
       ELSE last' = AdminResponse("get_verses", 200, 0, FALSE, get_all_verses)

\* POST /api/admin/verses
AddVerse(s, text, reference) ==
    /\ UNCHANGED <<user_draws, user_draws_seq, admin, session, pc, email,
                   chosen>>
    /\ IF ~session[s].admin_logged_in
       THEN /\ last' = AdminResponse("add_verse", 401, 0, FALSE, <<>>)
            /\ UNCHANGED <<verses, verses_seq>>
       ELSE IF text = Missing \/ reference = Missing
       THEN /\ last' = AdminResponse("add_verse", 400, 0, FALSE, <<>>)
            /\ UNCHANGED <<verses, verses_seq>>
       ELSE IF text = NotAString \/ reference = NotAString
       THEN \* data['text'].strip() raises AttributeError
            /\ last' = AdminResponse("add_verse", 500, 0, FALSE, <<>>)
            /\ UNCHANGED <<verses, verses_seq>>
       ELSE IF strip(text) = <<>> \/ strip(reference) = <<>>
       THEN /\ last' = AdminResponse("add_verse", 400, 0, FALSE, <<>>)
            /\ UNCHANGED <<verses, verses_seq>>
       ELSE /\ verses_seq < MaxVerseId
            /\ verses' = verses \cup
                    { [id |-> NextVerseId, text |-> strip(text),
                       reference |-> strip(reference)] }
            /\ verses_seq' = NextVerseId
            /\ last' = AdminResponse("add_verse", 200, NextVerseId, FALSE, <<>>)

\* The DELETE written WHERE id <= ?.
DeleteVerse_UpToId(s, verse_id) ==
    /\ UNCHANGED <<verses_seq, user_draws_seq, admin, session, pc, email,
                   chosen>>
    /\ IF ~session[s].admin_logged_in
       THEN /\ last' = AdminResponse("delete_verse", 401, 0, FALSE, <<>>)
            /\ UNCHANGED <<verses, user_draws>>
       ELSE /\ verses' = { v \in verses : v.id > verse_id }
            /\ user_draws' = user_draws
            /\ IF \E v \in verses : v.id <= verse_id
               THEN last' = AdminResponse("delete_verse", 200, 0, FALSE, <<>>)
               ELSE last' = AdminResponse("delete_verse", 404, 0, FALSE, <<>>)

\* The DELETE handler without its session test.
DeleteVerse_NoSessionTest(s, verse_id) ==
    /\ UNCHANGED <<verses_seq, user_draws_seq, admin, session, pc, email,
                   chosen>>
    /\ verses' = { v \in verses : v.id # verse_id }
    /\ user_draws' = user_draws
    /\ IF \E v \in verses : v.id = verse_id
       THEN last' = AdminResponse("delete_verse", 200, 0, FALSE, <<>>)
       ELSE last' = AdminResponse("delete_verse", 404, 0, FALSE, <<>>)

\* DELETE /api/admin/verses/<verse_id>
DeleteVerse(s, verse_id) ==
    /\ UNCHANGED <<verses_seq, user_draws_seq, admin, session, pc, email,
                   chosen>>
    /\ IF ~session[s].admin_logged_in
       THEN /\ last' = AdminResponse("delete_verse", 401, 0, FALSE, <<>>)
            /\ UNCHANGED <<verses, user_draws>>
       ELSE /\ verses' = { v \in verses : v.id # verse_id }
            /\ user_draws' = DrawsAfterDelete(verse_id)
            /\ IF \E v \in verses : v.id = verse_id
               THEN last' = AdminResponse("delete_verse", 200, 0, FALSE, <<>>)
               ELSE last' = AdminResponse("delete_verse", 404, 0, FALSE, <<>>)

\* ----------------------------------------------------------- specification

\* The server takes up one more request.
Accept == served < MaxRequests /\ served' = served + 1

DrawStep ==
    \/ \E p \in Procs, d \in EmailInputs : Accept /\ DrawCheck(p, d)
    \/ \E p \in Procs : DrawRead(p) /\ UNCHANGED served
    \/ \E p \in Procs : DrawInsert(p) /\ UNCHANGED served

AdminStep ==
    \/ \E s \in Sessions, u \in Usernames, w \in Passwords :
            Accept /\ AdminLogin(s, u, w)
    \/ \E s \in Sessions : Accept /\ AdminLogout(s)
    \/ \E s \in Sessions : Accept /\ AdminCheck(s)
    \/ \E s \in Sessions : Accept /\ GetVerses(s)
    \/ \E s \in Sessions, t \in TextInputs, r \in ReferenceInputs :
            Accept /\ AddVerse(s, t, r)
    \/ \E s \in Sessions, i \in 1..(MaxVerseId + 1) :
            Accept /\ DeleteVerse(s, i)

Next == DrawStep \/ AdminStep

\* Requests run concurrently: any interleaving of their database steps.
Spec == Init /\ [][Next]_vars

\* Requests run one after the other: a request starts only when no other
\* is under way.
NextSeq ==
    \/ DrawStep /\ Cardinality({p \in Procs : pc'[p] # "idle"}) <= 1
    \/ AdminStep /\ \A p \in Procs : pc[p] = "idle"

SpecSeq == Init /\ [][NextSeq]_vars

\* -------------------------------------------------------------- properties

\* Two spellings name the same mailbox: they differ only by letter case or
\* by surrounding whitespace.
SameAddress(r1, r2) ==
    \E b \in Addresses : r1 \in Spellings[b] /\ r2 \in Spellings[b]

\* The rows of the draw ledger that bind the mailbox b.
AssignmentsOf(b) == { ud \in user_draws : SameAddress(ud.email, b) }

VerseIds == { v.id : v \in verses }

\* C1: concurrent first-time draws for one identity all succeed with the
\* one verse the ledger binds: whenever a draw answers for an identity whose
\* Assignment exists (its verse still in the store), the answer is a 200
\* carrying that verse, never an error, and the identity has one row.
C1_ConcurrentDrawsAllSucceed ==
    (/\ last.op = "draw_verse"
     /\ \E ud \in user_draws : ud.email = last.key /\ ud.verse_id \in VerseIds)
    => /\ last.status = 200
       /\ \A ud \in user_draws :
             ud.email = last.key => last.verse.id = ud.verse_id
       /\ Cardinality({ ud \in user_draws : ud.email = last.key }) = 1

\* C2: in every reachable state the draw ledger holds at most one
\* Assignment per mailbox, however the requests spell and interleave.
C2_AtMostOneAssignment ==
    \A r1 \in user_draws, r2 \in user_draws :
        SameAddress(r1.email, r2.email) => r1 = r2

\* C2's case: an INSERT for a mailbox the ledger already binds was refused.
C2_Witness ==
    /\ last.op = "draw_verse"
    /\ last.status = 500
    /\ \E ud \in user_draws : ud.email = last.key

\* C3: once an Assignment exists for a mailbox, every later draw for it is
\* answered at once with the verse bound first and already_drawn = true,
\* and goes on to no INSERT, whatever the admin added or deleted meanwhile.
C3_RepeatDrawReturnsFirstVerse ==
    [][\A p \in Procs, b \in Addresses :
        \A d \in Spellings[b] :
          (AssignmentsOf(b) # {} /\ DrawCheck(p, d))
          => /\ pc'[p] = "idle"
             /\ last'.op = "draw_verse"
             /\ last'.status = 200
             /\ last'.already_drawn
             /\ \A ud \in AssignmentsOf(b) : last'.verse.id = ud.verse_id]_vars

\* A first draw's answer for the mailbox b: 200, already_drawn = false.
IsFirstAnswer(r, b) ==
    /\ r.op = "draw_verse"
    /\ r.status = 200
    /\ r.key = b
    /\ ~r.already_drawn

\* C4: requests running one after the other, a draw for an identity with no
\* Assignment and a non-empty pool answers already_drawn = false, and the
\* draw for the same identity that follows it answers the same verse with
\* already_drawn = true.
C4_DrawTwiceSameVerse ==
    [][\A p \in Procs :
        /\ (DrawInsert(p) /\ AssignmentsOf(email[p]) = {})
           => /\ chosen[p] \in verses
              /\ last' = DrawResponse(200, email[p], chosen[p], FALSE)
        /\ \A b \in Addresses :
             (IsFirstAnswer(last, b) /\ DrawCheck(p, b))
             => last' = [last EXCEPT !.already_drawn = TRUE]]_vars

\* C4's case: the second of two draws has answered already_drawn = true for
\* the one row of the ledger.
C4_Witness ==
    /\ last.op = "draw_verse"
    /\ last.status = 200
    /\ last.already_drawn
    /\ user_draws_seq = 1
    /\ \E ud \in user_draws : ud.email = last.key /\ ud.verse_id = last.verse.id

\* C5: spellings of one mailbox that differ by letter case or surrounding
\* whitespace meet in one Assignment: a draw that misses goes on under the
\* canonical key and inserts its row under it, a draw under another spelling
\* that follows the first answers the same verse with already_drawn = true
\* and inserts nothing, and the mailbox keeps exactly one row.
C5_VariantsShareAssignment ==
    [][\A p \in Procs, b \in Addresses :
        /\ \A d \in Spellings[b] :
             /\ (pc'[p] = "miss" /\ DrawCheck(p, d)) => email'[p] = b
             /\ (IsFirstAnswer(last, b) /\ DrawCheck(p, d))
                => /\ last' = [last EXCEPT !.already_drawn = TRUE]
                   /\ user_draws' = user_draws
                   /\ Cardinality(AssignmentsOf(b)) = 1
        /\ (DrawInsert(p) /\ email[p] = b /\ user_draws' # user_draws)
           => /\ user_draws' \ user_draws =
                    { [id |-> user_draws_seq + 1, email |-> b,
                       verse_id |-> chosen[p].id] }
              /\ Cardinality({ ud \in user_draws' : SameAddress(ud.email, b) })
                    = 1]_vars

\* C5's case: a draw was answered from the ledger, which holds one row for
\* each mailbox, under its canonical key.
C5_Witness ==
    /\ last.op = "draw_verse"
    /\ last.status = 200
    /\ last.already_drawn
    /\ last.key \in Addresses
    /\ \A b \in Addresses :
          /\ Cardinality(AssignmentsOf(b)) = 1
          /\ \E ud \in user_draws : ud.email = b

\* C6: no step changes or removes a row of the draw ledger: a row of one
\* state is a row of the next, also when its verse is deleted.
C6_AssignmentsArePermanent ==
    [][\A ud \in user_draws : ud \in user_draws']_vars

\* C6's case: a row outlives its verse.
C6_Witness ==
    \E ud \in user_draws : ud.verse_id \notin VerseIds

\* C7: a draw for an identity with no Assignment that reads an empty pool
\* ends in 404 and changes neither table, its request slot back where it
\* started; and the draw can be retried: requests running one after the
\* other, a draw for an identity with no Assignment is never refused nor
\* served from the ledger, reads a verse whenever the pool holds one, and
\* then answers 200 with already_drawn = false.
C7_EmptyPoolUnavailable ==
    [][\A p \in Procs :
        /\ (DrawRead(p) /\ verses = {})
           => /\ last' = DrawResponse(404, email[p], NoVerse, FALSE)
              /\ UNCHANGED <<verses, verses_seq, user_draws, user_draws_seq>>
              /\ pc'[p] = "idle" /\ email'[p] = <<>> /\ chosen'[p] = NoVerse
        /\ \A b \in Addresses : \A d \in Spellings[b] :
             (AssignmentsOf(b) = {} /\ DrawCheck(p, d))
             => pc'[p] = "miss" /\ email'[p] = b
        /\ (DrawRead(p) /\ verses # {})
           => pc'[p] = "chosen" /\ chosen'[p] \in verses
        /\ (DrawInsert(p) /\ AssignmentsOf(email[p]) = {})
           => /\ last'.status = 200 /\ ~last'.already_drawn
              /\ \E ud \in user_draws' : ud.email = email[p]]_vars

\* C7's case: a first draw was answered 404 on an empty pool.
C7_Witness ==
    /\ last.op = "draw_verse"
    /\ last.status = 404
    /\ verses = {}
    /\ AssignmentsOf(last.key) = {}

\* C8: the verse a new Assignment binds is in the Verse Store when the
\* Assignment is committed.
C8_NewAssignmentBindsStoredVerse ==
    [][\A ud \in user_draws' \ user_draws :
          \E v \in verses' : v.id = ud.verse_id]_vars

\* C9: a draw for an identity whose Assignment is found (the hit path: a
\* step that takes up a request, leaves no request under way for it and
\* answers already_drawn = true) leaves the ledger and the Verse Store as
\* they were; the verse it answers is the one the ledger binds.
C9_HitHasNoSideEffect ==
    [][(/\ served' = served + 1
        /\ pc' = pc
        /\ last'.op = "draw_verse"
        /\ last'.status = 200
        /\ last'.already_drawn)
       => /\ UNCHANGED <<verses, verses_seq, user_draws, user_draws_seq>>
          /\ \E ud \in user_draws :
                ud.email = last'.key /\ ud.verse_id = last'.verse.id]_vars

\* C9's case: a hit was answered.
C9_Witness ==
    /\ last.op = "draw_verse"
    /\ last.status = 200
    /\ last.already_drawn
    /\ \E ud \in user_draws : ud.email = last.key /\ ud.verse_id \in VerseIds

\* C10: on a miss with a non-empty pool the verse chosen is one of the rows
\* read, each row of the pool can be the one chosen (those other identities
\* hold included), and the row inserted binds the verse chosen.
C10_ChoiceOverWholePool ==
    [][\A p \in Procs :
        /\ pc[p] = "miss"
           => \A v \in verses : ENABLED (DrawRead(p) /\ chosen'[p] = v)
        /\ (DrawRead(p) /\ verses # {}) => chosen'[p] \in verses
        /\ DrawInsert(p)
           => \A ud \in user_draws' \ user_draws : ud.verse_id = chosen[p].id]_vars

\* C10's case: two identities hold the same verse.
C10_Witness ==
    \E r1 \in user_draws, r2 \in user_draws :
        r1.email # r2.email /\ r1.verse_id = r2.verse_id

\* The "email" members draw_verse refuses: the member is missing, or the
\* string, stripped, fails is_valid_email.
RefusedEmails ==
    {Missing} \cup { d \in StringInputs : ~is_valid_email(strip(d)) }

\* C11: a draw whose email is missing or fails is_valid_email is answered
\* 400 and never reaches the ledger: the request goes on to no database
\* step, no row is created, and both tables are as they were.
C11_InvalidEmailRejected ==
    [][\A p \in Procs : \A d \in RefusedEmails :
          DrawCheck(p, d)
          => /\ last'.op = "draw_verse"
             /\ last'.status = 400
             /\ pc' = pc
             /\ UNCHANGED <<verses, verses_seq, user_draws,
                            user_draws_seq>>]_vars

\* C11's case: a draw was refused with 400 while the ledger holds a row.
C11_Witness ==
    /\ last.op = "draw_verse"
    /\ last.status = 400
    /\ user_draws # {}

\* The three admin verse requests of the session s (each answers under its
\* own name).
VerseRequest(s) ==
    \/ last'.op = "get_verses" /\ GetVerses(s)
    \/ /\ last'.op = "add_verse"
       /\ \E t \in TextInputs, r \in ReferenceInputs : AddVerse(s, t, r)
    \/ /\ last'.op = "delete_verse"
       /\ \E i \in 1..(MaxVerseId + 1) : DeleteVerse(s, i)

\* C12: an admin verse request (GET, POST, DELETE) of a session that is not
\* logged in answers 401 and leaves the Verse Store and the ledger as they
\* were; a step that adds or deletes a verse is a POST or DELETE of a
\* session that is logged in.
C12_VerseRequestsNeedLogin ==
    [][/\ \A s \in Sessions :
            (~session[s].admin_logged_in /\ VerseRequest(s))
            => /\ last'.status = 401
               /\ UNCHANGED <<verses, verses_seq, user_draws,
                              user_draws_seq>>
       /\ verses' # verses
            => \E s \in Sessions :
                  /\ session[s].admin_logged_in
                  /\ last'.op \in {"add_verse", "delete_verse"}
                  /\ VerseRequest(s)]_vars

\* C12's case: a verse request was refused with 401 in a run where a
\* logged-in session had added a verse before.
C12_Witness ==
    /\ last.op \in {"get_verses", "add_verse", "delete_verse"}
    /\ last.status = 401
    /\ verses_seq > NumSampleVerses

\* The password w is given and is not the password of a row named u.
WrongPassword(u, w) ==
    /\ w # MissingField
    /\ \A r \in admin :
          r.username = u => r.password_hash # generate_password_hash(w)

\* C13: a login with a wrong password answers 401 and establishes no
\* session, and the GET /api/admin/verses of that session that follows it
\* answers 401.
C13_WrongPasswordThenUnauthorized ==
    [][\A s \in Sessions :
        /\ last'.op = "admin_login"
           => \A u \in Usernames \ {MissingField}, w \in Passwords :
                 (WrongPassword(u, w) /\ AdminLogin(s, u, w))
                 => last'.status = 401 /\ session' = session
        /\ (last.op = "admin_login" /\ last.status = 401 /\ GetVerses(s))
           => last'.status = 401]_vars

\* C13 as amended: a login with a wrong password answers 401 and leaves the
\* session as it was; when the session was not logged in, the GET
\* /api/admin/verses that follows answers 401.
C13_FailedLoginKeepsSession ==
    [][\A s \in Sessions :
        /\ last'.op = "admin_login"
           => \A u \in Usernames \ {MissingField}, w \in Passwords :
                 (WrongPassword(u, w) /\ AdminLogin(s, u, w))
                 => last'.status = 401 /\ session' = session
        /\ (/\ last.op = "admin_login"
            /\ last.status = 401
            /\ ~session[s].admin_logged_in
            /\ GetVerses(s))
           => last'.status = 401]_vars

\* C13's case: a login was refused with 401 and no session is logged in.
C13_Witness ==
    /\ last.op = "admin_login"
    /\ last.status = 401
    /\ \A s \in Sessions : session[s] = EmptySession

\* C14: logout empties the session; while a session is not logged in,
\* /api/admin/check reports logged_in = false and its verse requests answer
\* 401; and a session comes to be logged in by nothing but a login that
\* answers 200 for a password that is not wrong.
C14_LogoutClearsSession ==
    [][\A s \in Sessions :
        /\ (last'.op = "admin_logout" /\ AdminLogout(s))
           => session'[s] = EmptySession
        /\ (/\ last'.op = "admin_check"
            /\ ~session[s].admin_logged_in
            /\ AdminCheck(s))
           => last'.logged_in = FALSE
        /\ (~session[s].admin_logged_in /\ VerseRequest(s))
           => last'.status = 401
        /\ (~session[s].admin_logged_in /\ session'[s].admin_logged_in)
           => /\ last'.op = "admin_login"
              /\ last'.status = 200
              /\ \E u \in Usernames, w \in Passwords :
                    AdminLogin(s, u, w) /\ ~WrongPassword(u, w)]_vars

\* C14's case: /api/admin/check reported logged_in = false to a session
\* that had logged in (it added a verse) and out.
C14_Witness ==
    /\ last.op = "admin_check"
    /\ ~last.logged_in
    /\ verses_seq > NumSampleVerses
    /\ \A s \in Sessions : session[s] = EmptySession

\* C15: the Verse Store's round trip. An add answers an id that no row of
\* the store carries, and get_all_verses right after it lists a row of that
\* id with the text and the reference added; a delete of an id the store
\* carries answers success, get_verse_by_id right after it finds nothing,
\* and every other row is as it was.
C15_VerseStoreRoundTrip ==
    [][\A s \in Sessions :
        /\ (last'.op = "add_verse" /\ last'.status = 200)
           => \A t \in TextInputs, r \in ReferenceInputs :
                 AddVerse(s, t, r)
                 => /\ last'.verse_id \notin VerseIds
                    /\ \E i \in 1..Len(get_all_verses') :
                          get_all_verses'[i] =
                              [id |-> last'.verse_id, text |-> strip(t),
                               reference |-> strip(r)]
        /\ (last'.op = "delete_verse" /\ session[s].admin_logged_in)
           => \A i \in VerseIds :
                 DeleteVerse(s, i)
                 => /\ last'.status = 200
                    /\ get_verse_by_id(i)' = NoVerse
                    /\ verses' \subseteq verses
                    /\ \A v \in verses :
                          v.id # i => get_verse_by_id(v.id)' = v]_vars

\* C15's case: a verse was deleted after a verse had been added, and the
\* store still holds a row.
C15_Witness ==
    /\ last.op = "delete_verse"
    /\ last.status = 200
    /\ verses_seq > NumSampleVerses
    /\ verses # {}

\* A member of the body that is missing, or empty once trimmed.
Blank(x) == x = Missing \/ (x # NotAString /\ strip(x) = <<>>)

\* C16: a POST /api/admin/verses of a logged-in session whose text or
\* reference is missing or empty after trimming answers 400 and adds no
\* verse; every verse a step adds has a non-empty text and a non-empty
\* reference.
C16_BlankFieldsRefused ==
    [][/\ \A s \in Sessions, t \in TextInputs, r \in ReferenceInputs :
            (/\ session[s].admin_logged_in
             /\ Blank(t) \/ Blank(r)
             /\ AddVerse(s, t, r))
            => /\ last'.status = 400
               /\ UNCHANGED <<verses, verses_seq>>
       /\ \A v \in verses' \ verses :
            v.text # <<>> /\ v.reference # <<>>]_vars

\* C17: in every reachable state every email key of the draw ledger is in
\* canonical form (strip() and lower() leave it as it is) and satisfies
\* is_valid_email.
C17_LedgerKeysCanonical ==
    \A ud \in user_draws :
        /\ strip(ud.email) = ud.email
        /\ lower(ud.email) = ud.email
        /\ is_valid_email(ud.email)

\* C17's case: the ledger holds a key for each mailbox the requests spell.
C17_Witness ==
    \A b \in Addresses : \E ud \in user_draws : ud.email = b

\* C18: verse ids are never reused. No row of the store carries an id above
\* the sequence, the sequence never falls, and a row a step adds carries an
\* id above the sequence (the id the add answers): the id differs from
\* every id the store ever held. An Assignment whose verse is not in the
\* store does not come to reference a row of the store.
C18_VerseIdsNeverReused ==
    [][/\ \A v \in verses : v.id <= verses_seq
       /\ verses_seq' >= verses_seq
       /\ \A v \in verses' \ verses :
            v.id > verses_seq /\ v.id = last'.verse_id
       /\ \A ud \in user_draws :
            ud.verse_id \notin VerseIds
            => \A v \in verses' : v.id # ud.verse_id]_vars

\* C18's case: a verse was added after the verse of an Assignment had been
\* deleted.
C18_Witness ==
    /\ last.op = "add_verse"
    /\ last.status = 200
    /\ \E ud \in user_draws :
          /\ ud.verse_id \notin VerseIds
          /\ ud.verse_id < last.verse_id

\* C19: a step of a draw for an identity leaves the Verse Store as it was,
\* removes and changes no row of the ledger, and adds no row but one for
\* the identity the request runs for, whatever other draws are under way.
C19_DrawTouchesOnlyOwnEntry ==
    [][\A p \in Procs :
        (/\ pc'[p] # pc[p] \/ last'.op = "draw_verse"
         /\ \/ DrawRead(p)
            \/ DrawInsert(p)
            \/ \E d \in EmailInputs : DrawCheck(p, d))
        => /\ UNCHANGED <<verses, verses_seq>>
           /\ user_draws \subseteq user_draws'
           /\ \A ud \in user_draws' \ user_draws : ud.email = email[p]
           /\ pc[p] # "idle" => email'[p] \in {email[p], <<>>}]_vars

\* C19's case: a draw committed its row while a draw for another identity
\* is under way.
C19_Witness ==
    \E p \in Procs :
        /\ pc[p] = "chosen"
        /\ IsFirstAnswer(last, last.key)
        /\ last.key # email[p]
        /\ \E ud \in user_draws : ud.email = last.key

=============================================================================
